---- MODULE Spec2Model ----
(***************************************************************************)
(* A model of the POI survey application (bksaini078/PoI_survey):          *)
(*   - the survey session: consent, intake form, batch content generation, *)
(*     the comparison steps with their Next/Finish navigation, the bulk    *)
(*     flush of the responses and the restart;                             *)
(*   - AIService.generate_ai_content and its truncation of the generated   *)
(*     description (specification SpecGen);                                *)
(*   - the preference scores of data_analysis/utils.py (specification      *)
(*     SpecScore);                                                         *)
(*   - the aggregation pipeline of data_analysis/main.py: load the CSV     *)
(*     exports, process, aggregate by user (specification SpecPipeline);   *)
(*   - the flushes of two sessions into files named by the second          *)
(*     (specification SpecExport);                                         *)
(*   - the session under fair scheduling of a participant who keeps        *)
(*     answering and pressing Next/Finish (specification SpecLive).        *)
(* Text is a sequence of one-character strings, so that len(), slicing and *)
(* rsplit are computed as Python computes them.                            *)
(***************************************************************************)
EXTENDS Integers, Sequences, FiniteSets, TLC

\* ------------------------------------------------------------------ bounds

\* POIs of the largest catalog.
MaxPOIs == 2
\* How many times in a row the CSV write of the flush may fail.
MaxFlushFailures == 1
\* How many times one session may press 'Start New Survey'.
MaxRestarts == 1
\* Largest number of options the respondent ticks in one multiselect.
MaxSelections == 3
\* How many final questionnaires one run may save.
MaxFinalSubmissions == 2

\* ------------------------------------------------------------------- text

\* The characters Python's str.strip() and str.split() treat as whitespace
\* that occur in the model's texts.
Whitespace == {" ", "\t"}

RECURSIVE LStrip(_)
LStrip(s) ==
    IF s # <<>> /\ Head(s) \in Whitespace THEN LStrip(Tail(s)) ELSE s

RECURSIVE RStrip(_)
RStrip(s) ==
    IF s # <<>> /\ s[Len(s)] \in Whitespace
    THEN RStrip(SubSeq(s, 1, Len(s) - 1))
    ELSE s

\* str.strip()
Strip(s) == RStrip(LStrip(s))

\* s[:n]
Slice(s, n) == SubSeq(s, 1, IF n < Len(s) THEN n ELSE Len(s))

\* The positions of the character c in s.
Positions(s, c) == {i \in 1..Len(s) : s[i] = c}

Max(S) == CHOOSE x \in S : \A y \in S : y <= x

\* s.rsplit(' ', 1)[0]: the text before the last space character, the whole
\* text when it holds no space character.
RSplitSpaceHead(s) ==
    IF Positions(s, " ") = {} THEN s
    ELSE SubSeq(s, 1, Max(Positions(s, " ")) - 1)

\* ------------------------------------------------- content personalization

EmptyMap == [x \in {} |-> x]

\* The placeholder texts of the except branch.
ErrorTitle == <<"[", "E", "r", "r", "o", "r", " ", "g", "e", "n", "e", "r", "a", "t", "i", "n", "g", " ", "t", "i", "t", "l", "e", "]">>
ErrorDescription == <<"[", "E", "r", "r", "o", "r", " ", "g", "e", "n", "e", "r", "a", "t", "i", "n", "g", " ", "d", "e", "s", "c", "r", "i", "p", "t", "i", "o", "n", "]">>

\* A successful endpoint call answers with a title and a description; any
\* fault (timeout, refusal, malformed answer) raises inside the try block.
Fault == [fault |-> TRUE, title |-> <<>>, description |-> <<>>]
Reply(t, d) == [fault |-> FALSE, title |-> t, description |-> d]

\* generate_ai_content without the check of the description's length.
generate_ai_content_unchecked(poi_data, outcome) ==
    IF outcome.fault
    THEN [title |-> ErrorTitle, description |-> ErrorDescription]
    ELSE [title |-> outcome.title, description |-> outcome.description]

\* AIService.generate_ai_content, given what the endpoint call does.
generate_ai_content(poi_data, outcome) ==
    LET max_description_length == Len(poi_data.description)
    IN  IF outcome.fault
        THEN [title |-> ErrorTitle, description |-> ErrorDescription]
        ELSE [title |-> outcome.title,
              description |->
                  IF Len(outcome.description) > max_description_length
                  THEN RSplitSpaceHead(Slice(outcome.description,
                                             max_description_length))
                  ELSE outcome.description]

\* generate_all_poi_content leaving its loop at the first POI whose
\* generation fails: the POIs after it get no entry.
generate_all_poi_content_until_fault(pois, outcomes) ==
    LET Reached(i) == \A k \in 1..(i - 1) : ~outcomes[k].fault
    IN  [id \in {pois[i].id : i \in {j \in 1..Len(pois) : Reached(j)}} |->
            LET i == CHOOSE j \in 1..Len(pois) : pois[j].id = id
            IN  generate_ai_content(pois[i], outcomes[i])]

\* AIService.generate_all_poi_content: one call of generate_ai_content per
\* POI, in list order; outcomes[i] is what the endpoint does on the i-th call.
\* The result maps each POI id to its generated pair.
generate_all_poi_content(pois, outcomes) ==
    [id \in {pois[i].id : i \in 1..Len(pois)} |->
        LET i == CHOOSE j \in 1..Len(pois) :
                     /\ pois[j].id = id
                     /\ \A k \in (j + 1)..Len(pois) : pois[k].id # id
        IN  generate_ai_content(pois[i], outcomes[i])]

\* The POI ids generate_all_poi_content passes to generate_ai_content, in
\* the order of its loop: for i, poi in enumerate(pois).
generation_calls(pois) == [i \in 1..Len(pois) |-> pois[i].id]

\* The progress with the bar set before the call instead of after it.
reported_progress_before_call(pois) ==
    [i \in 1..Len(pois) |-> [done |-> i - 1, total |-> Len(pois)]]

\* The progress the loop reports: 'POI {i+1}/{len(pois)}' in the spinner of
\* iteration i and progress((i + 1) / len(pois)) after its call.
reported_progress(pois) ==
    [i \in 1..Len(pois) |-> [done |-> i, total |-> Len(pois)]]

\* ------------------------------------------------------------ POI catalog

\* The POI with identifier i, as data/pois.json holds it.
POI(i) == [id |-> i, title |-> <<"D", "o", "m">>, description |-> <<"o", "l", "d", " ", "t", "o", "w", "n">>]

RECURSIVE Flatten_prepending(_)
\* all_pois with each category's list put in front of the list so far.
Flatten_prepending(categories) ==
    IF categories = <<>> THEN <<>>
    ELSE Flatten_prepending(Tail(categories)) \o Head(categories).pois

RECURSIVE Flatten(_)
\* all_pois after the loop over the categories.
Flatten(categories) ==
    IF categories = <<>> THEN <<>>
    ELSE Head(categories).pois \o Flatten(Tail(categories))

\* A category object and its 'pois' list; has_pois is false for a category
\* object without the key.
Category(pois) == [has_pois |-> TRUE, pois |-> pois]
CategoryWithoutPOIs == [has_pois |-> FALSE, pois |-> <<>>]

\* A catalog document of n POIs in two categories.
Document(n) ==
    [exists |-> TRUE, parses |-> TRUE, has_categories |-> TRUE,
     categories |-> << Category([i \in 1..(n \div 2) |-> POI(i)]),
                       Category([i \in 1..(n - n \div 2) |-> POI(n \div 2 + i)]) >>]

MissingDocument == [exists |-> FALSE, parses |-> FALSE, has_categories |-> FALSE, categories |-> <<>>]

\* A file that is not valid JSON, and a valid one whose second category has
\* no 'pois' key.
InvalidJSONDocument == [exists |-> TRUE, parses |-> FALSE, has_categories |-> FALSE, categories |-> <<>>]
IncompleteDocument ==
    [exists |-> TRUE, parses |-> TRUE, has_categories |-> TRUE,
     categories |-> << Category(<<POI(1)>>), CategoryWithoutPOIs >>]

\* A JSON object without the 'categories' key.
DocumentWithoutCategories == [exists |-> TRUE, parses |-> TRUE, has_categories |-> FALSE, categories |-> <<>>]

\* data.get('categories', [])
get_categories(data) ==
    IF data.has_categories THEN data.categories ELSE <<>>

\* The catalog files a deployment may hold.
Documents ==
    {MissingDocument, InvalidJSONDocument, IncompleteDocument,
     DocumentWithoutCategories}
    \cup {Document(n) : n \in 0..MaxPOIs}

\* What the endpoint may do on one call of the survey session.
SessionOutcomes == {Fault, Reply(<<"N", "e", "w", " ", "D", "o", "m">>, <<"a", " ", "f", "i", "n", "e", " ", "o", "l", "d", " ", "t", "o", "w", "n", " ", "h", "a", "l", "l">>)}

\* --------------------------------------------------------- session state

VARIABLES
    pois_json,          \* data/pois.json
    page,               \* st.session_state.page
    consent_given,      \* st.session_state.consent_given
    user_id,            \* st.session_state.user_id
    user_data,          \* st.session_state.user_data
    ai_content,         \* st.session_state.ai_content
    survey_responses,   \* st.session_state.survey_responses
    order_poi,          \* st.session_state['order_poi_<id>'], by POI id
    widgets,            \* the radio values of the comparison step on screen
    error,              \* what the last script run showed with st.error
    temp_file,          \* temp_data/temp_poi_content_<user_id>.json
    csv_writes,         \* survey_responses_*.csv files written so far
    last_flush,         \* the call of save_response in the last script run
    last_gen,           \* the call of generate_all_poi_content in the last script run
    endpoint_calls,     \* calls of the generation endpoint so far
    restarts,           \* 'Start New Survey' clicks so far
    last_submit,        \* the intake submission of the last script run
    last_nav,           \* the 'Next'/'Finish' click of the last script run
    final_submissions,  \* final_responses_*.csv files written since the (re)start
    last_final,         \* the 'Submit' click of the final questionnaire in the last script run
    gen_pc,             \* generate_ai_content: "ready", then "returned"
    gen_poi,            \* its poi_data
    gen_outcome,        \* what its endpoint call did
    gen_result,         \* the POIResponse it returned
    df_pc,              \* where the aggregation pipeline stands
    df,                 \* the rows of survey_df, the table of survey responses
    df_columns,         \* survey_df.columns
    df_before,          \* survey_df as it was when the last step was called
    df_error,           \* the exception that ended the pipeline
    csv_files,          \* the survey_responses_*.csv files of the directory
    user_aggs,          \* the table aggregate_user_responses returned
    clock,              \* datetime.now(), in ticks
    survey_results,     \* the files of survey_results/, by name
    flushes             \* the calls of save_response of the sessions flushing

session_vars ==
    <<pois_json, page, consent_given, user_id, user_data, ai_content,
      survey_responses, order_poi, widgets, error, temp_file, csv_writes,
      last_flush, last_gen, endpoint_calls, restarts,
      last_submit, last_nav, final_submissions, last_final>>

gen_vars == <<gen_pc, gen_poi, gen_outcome, gen_result>>

score_vars ==
    <<df_pc, df, df_columns, df_before, df_error, csv_files, user_aggs>>

export_vars == <<clock, survey_results, flushes>>

\* What st.error shows for a missing catalog, and the exceptions the loader
\* does not catch.
CatalogNotFound == <<"POI data file not found. Please ensure 'data/pois.json' exists.">>
JSONDecodeError == <<"JSONDecodeError">>
KeyError == <<"KeyError">>

\* POIService.load_poi_data: the flat list of all categories' POIs; None
\* (ok = FALSE) after st.error for a missing file (FileNotFoundError is the
\* one exception caught); json.load raises on a file that is not JSON and
\* category['pois'] raises on a category without the key.
load_poi_data ==
    IF ~pois_json.exists
    THEN [ok |-> FALSE, raised |-> <<>>, shown |-> CatalogNotFound,
          pois |-> <<>>]
    ELSE IF ~pois_json.parses
    THEN [ok |-> FALSE, raised |-> JSONDecodeError, shown |-> <<>>,
          pois |-> <<>>]
    ELSE IF \E k \in 1..Len(get_categories(pois_json)) :
                ~get_categories(pois_json)[k].has_pois
    THEN [ok |-> FALSE, raised |-> KeyError, shown |-> <<>>, pois |-> <<>>]
    ELSE [ok |-> TRUE, raised |-> <<>>, shown |-> <<>>,
          pois |-> Flatten(get_categories(pois_json))]

\* ------------------------------------------------------------ intake form

HOBBIES == <<"Reading", "Writing", "Sports", "Music">>
TRAVEL_STYLES == <<"Luxury", "Budget", "Adventure", "Cultural">>
TRAVEL_INTERESTS == <<"History & Culture", "Nature & Outdoors",
                      "Food & Cuisine", "Architecture">>

\* What the respondent may type as city and tick in a multiselect.
Cities == {<<>>, <<" ">>, <<"U", "l", "m">>}
Ticked(options) == {SubSeq(options, 1, k) : k \in {2, MaxSelections}}

\* validation_errors with the city tested without strip().
validation_errors_unstripped(livein_city, hobbies, preferred_travel_style, interests) ==
    (IF livein_city = <<>>
     THEN <<"Current City is required">> ELSE <<>>)
    \o (IF Len(hobbies) < 3
        THEN <<"Please select at least 3 hobbies">> ELSE <<>>)
    \o (IF Len(preferred_travel_style) < 3
        THEN <<"Please select at least 3 Preferred Travel Styles">> ELSE <<>>)
    \o (IF Len(interests) < 3
        THEN <<"Please select at least 3 Travel Interests">> ELSE <<>>)

\* validation_errors of show_user_details_form, in the order it appends.
validation_errors(livein_city, hobbies, preferred_travel_style, interests) ==
    (IF Strip(livein_city) = <<>>
     THEN <<"Current City is required">> ELSE <<>>)
    \o (IF Len(hobbies) < 3
        THEN <<"Please select at least 3 hobbies">> ELSE <<>>)
    \o (IF Len(preferred_travel_style) < 3
        THEN <<"Please select at least 3 Preferred Travel Styles">> ELSE <<>>)
    \o (IF Len(interests) < 3
        THEN <<"Please select at least 3 Travel Interests">> ELSE <<>>)

\* The profile show_user_details_form stores (the fields the form copies
\* unchanged and nothing reads are left out).
UserData(livein_city, hobbies, preferred_travel_style, interests) ==
    [user_id |-> user_id,
     city |-> livein_city,
     hobbies |-> hobbies,
     interests |-> interests,
     preferred_travel_style |-> preferred_travel_style]

\* ------------------------------------------------------- comparison step

\* The twelve radio keys of a step, in the order of fields_to_check.
Fields ==
    <<"manual_significance", "manual_trust", "manual_clarity",
      "ai_significance", "ai_trust", "ai_clarity",
      "engaging", "relevant", "eager", "title", "description", "isvisited">>

FieldSet == {Fields[i] : i \in 1..Len(Fields)}

PreferenceFields == {"engaging", "relevant", "eager", "title", "description"}

question_text ==
    [f \in FieldSet |->
        CASE f = "manual_significance" -> "Significance rating for Version A"
          [] f = "manual_trust" -> "Trust rating for Version A"
          [] f = "manual_clarity" -> "Clarity rating for Version A"
          [] f = "ai_significance" -> "Significance rating for Version B"
          [] f = "ai_trust" -> "Trust rating for Version B"
          [] f = "ai_clarity" -> "Clarity rating for Version B"
          [] f = "engaging" -> "Which description was more engaging"
          [] f = "relevant" -> "Which description provided more relevant information"
          [] f = "eager" -> "Which description would make you more eager to visit"
          [] f = "title" -> "Which title was more appealing"
          [] f = "description" -> "Overall better description"
          [] f = "isvisited" -> "Your familiarity with this place"]

\* A sheet with every question answered: the same choice on the five
\* forced-choice questions, fixed ratings for the two text boxes.
FullSheet(choice) ==
    [f \in FieldSet |->
        CASE f \in PreferenceFields -> choice
          [] f = "manual_significance" -> "Agree"
          [] f = "manual_trust" -> "Very"
          [] f = "manual_clarity" -> "Clear"
          [] f = "ai_significance" -> "Disagree"
          [] f = "ai_trust" -> "Slightly"
          [] f = "ai_clarity" -> "Unclear"
          [] f = "isvisited" -> "I have visited it in person."]

Blanked(sheet, unanswered) ==
    [f \in FieldSet |-> IF f \in unanswered THEN "No Selection" ELSE sheet[f]]

\* Every radio of a step starts at index 0.
DefaultSheet == Blanked(FullSheet("Version A"), FieldSet)

\* The radio values the browser may report for a step.
AnswerSheets ==
    {FullSheet(c) : c \in {"Version A", "Version B", "Both equally"}}
    \cup {Blanked(FullSheet("Version A"), {f}) : f \in {"manual_trust", "isvisited"}}
    \cup {DefaultSheet}

\* unanswered_questions without the familiarity question, the one outside
\* the assessment sections.
unanswered_questions_of_assessments(sheet) ==
    LET Unanswered(i) == sheet[Fields[i]] = "No Selection"
        F[i \in 0..Len(Fields)] ==
            IF i = 0 THEN <<>>
            ELSE IF Unanswered(i) /\ Fields[i] # "isvisited"
                 THEN Append(F[i - 1], question_text[Fields[i]])
                 ELSE F[i - 1]
    IN  F[Len(Fields)]

\* unanswered_questions of _validate_responses.
unanswered_questions(sheet) ==
    LET Unanswered(i) == sheet[Fields[i]] = "No Selection"
        F[i \in 0..Len(Fields)] ==
            IF i = 0 THEN <<>>
            ELSE IF Unanswered(i) THEN Append(F[i - 1], question_text[Fields[i]])
                 ELSE F[i - 1]
    IN  F[Len(Fields)]

\* The record built from the step's answers alone, the profile's city and
\* selections left empty.
Response_without_profile(poi, is_manual_first) ==
    [user_id |-> user_data.user_id,
     city |-> <<>>,
     hobbies |-> <<>>,
     interests |-> <<>>,
     preferred_travel_style |-> <<>>,
     poi_id |-> poi.id,
     poi_title |-> poi.title,
     is_manual_first |-> is_manual_first,
     manual_significance |-> widgets["manual_significance"],
     manual_trust |-> widgets["manual_trust"],
     manual_clarity |-> widgets["manual_clarity"],
     ai_significance |-> widgets["ai_significance"],
     ai_trust |-> widgets["ai_trust"],
     ai_clarity |-> widgets["ai_clarity"],
     engaging_preference |-> widgets["engaging"],
     relevant_preference |-> widgets["relevant"],
     eager_preference |-> widgets["eager"],
     title_preference |-> widgets["title"],
     description_preference |-> widgets["description"],
     already_visited |-> widgets["isvisited"]]

\* The record _handle_navigation builds for step poi_index (the timestamp,
\* which nothing reads, is left out).
Response(poi, is_manual_first) ==
    [user_id |-> user_data.user_id,
     city |-> user_data.city,
     hobbies |-> user_data.hobbies,
     interests |-> user_data.interests,
     preferred_travel_style |-> user_data.preferred_travel_style,
     poi_id |-> poi.id,
     poi_title |-> poi.title,
     is_manual_first |-> is_manual_first,
     manual_significance |-> widgets["manual_significance"],
     manual_trust |-> widgets["manual_trust"],
     manual_clarity |-> widgets["manual_clarity"],
     ai_significance |-> widgets["ai_significance"],
     ai_trust |-> widgets["ai_trust"],
     ai_clarity |-> widgets["ai_clarity"],
     engaging_preference |-> widgets["engaging"],
     relevant_preference |-> widgets["relevant"],
     eager_preference |-> widgets["eager"],
     title_preference |-> widgets["title"],
     description_preference |-> widgets["description"],
     already_visited |-> widgets["isvisited"]]

\* show_poi_comparison drawing the slot at every render, not only when the
\* key is missing.
order_drawn_each_render(order, p, coin) ==
    IF pois_json.exists /\ p >= 1 /\ p <= Len(Flatten(pois_json.categories))
    THEN LET id == Flatten(pois_json.categories)[p].id
         IN  [x \in DOMAIN order \cup {id} |->
                 IF x = id THEN coin ELSE order[x]]
    ELSE order

\* The slot assignments after show_poi_comparison has run for page p on the
\* assignments order, coin being what random.choice returns: the stored value
\* is kept when there is one. A page that is no step of the loaded catalog
\* raises before it.
order_after_render(order, p, coin) ==
    LET poi_data == load_poi_data
    IN  IF poi_data.ok /\ p >= 1 /\ p <= Len(poi_data.pois)
        THEN LET id == poi_data.pois[p].id
             IN  IF id \in DOMAIN order THEN order
                 ELSE [x \in DOMAIN order \cup {id} |->
                          IF x = id THEN coin ELSE order[x]]
        ELSE order

\* What random.choice may return when show_poi_comparison runs for page p:
\* it is called only when the POI's key is missing (no call, no draw).
Draws(order, p) ==
    LET poi_data == load_poi_data
    IN  IF poi_data.ok /\ p >= 1 /\ p <= Len(poi_data.pois)
           /\ poi_data.pois[p].id \notin DOMAIN order
        THEN BOOLEAN ELSE {TRUE}

\* The radios on screen after the script has run for page p.
widgets_after_render(p) ==
    LET poi_data == load_poi_data
    IN  IF poi_data.ok /\ p >= 1 /\ p <= Len(poi_data.pois)
        THEN DefaultSheet ELSE EmptyMap

\* The test of _handle_navigation with the last step counted as having a
\* next one missing: one step too early.
has_next_step_one_short(poi_index, poi_data) ==
    poi_index < Len(poi_data.pois) - 2

\* poi_index < len(poi_data["pois"]) - 1: the button reads 'Next' and the
\* click advances; otherwise it reads 'Finish' and the click flushes.
has_next_step(poi_index, poi_data) ==
    poi_index < Len(poi_data.pois) - 1

\* The comparison page of the current state renders: main loads the catalog
\* and show_poi_comparison finds its POI.
OnComparisonStep ==
    /\ page >= 1
    /\ load_poi_data.ok
    /\ page <= Len(load_poi_data.pois)

\* ----------------------------------------------------------------- actions

\* save_response with the write wrapped in a handler that drops its error.
save_response_swallowing(responses, write_ok) ==
    [raised |-> FALSE,
     files |-> IF responses # <<>> /\ write_ok THEN 1 ELSE 0]

\* SurveyResponseService.save_response: nothing for an empty list; else one
\* new CSV file, or the exception of a write that fails (write_ok false).
save_response(responses, write_ok) ==
    [raised |-> responses # <<>> /\ ~write_ok,
     files |-> IF responses # <<>> /\ write_ok THEN 1 ELSE 0]

NoFlush == [called |-> FALSE, responses |-> <<>>, ok |-> FALSE]
NoGen ==
    [called |-> FALSE, cache_existed |-> FALSE, cached |-> EmptyMap,
     returned |-> EmptyMap, calls |-> 0, outcomes |-> <<>>,
     requested |-> <<>>, progress |-> <<>>]
NoFile == [exists |-> FALSE, content |-> EmptyMap]
NoSubmit ==
    [made |-> FALSE, livein_city |-> <<>>, hobbies |-> <<>>,
     preferred_travel_style |-> <<>>, interests |-> <<>>, returned |-> FALSE]
Submitted(livein_city, hobbies, preferred_travel_style, interests, returned) ==
    [made |-> TRUE, livein_city |-> livein_city, hobbies |-> hobbies,
     preferred_travel_style |-> preferred_travel_style,
     interests |-> interests, returned |-> returned]

NoNav == [pressed |-> FALSE, poi_index |-> 0, answers |-> EmptyMap]
NoFinal == [made |-> FALSE, sheet |-> EmptyMap, rows |-> <<>>]
\* A click on the button of step poi_index with the radios at answers.
Pressed(poi_index, answers) ==
    [pressed |-> TRUE, poi_index |-> poi_index, answers |-> answers]

\* initialize_session_state, in a deployment holding one of the catalogs.
SessionInit ==
    /\ pois_json \in Documents
    /\ page = -2
    /\ consent_given = FALSE
    /\ user_id = 1
    /\ user_data = EmptyMap
    /\ ai_content = EmptyMap
    /\ survey_responses = <<>>
    /\ order_poi = EmptyMap
    /\ widgets = EmptyMap
    /\ error = <<>>
    /\ temp_file = NoFile
    /\ csv_writes = 0
    /\ last_flush = NoFlush
    /\ last_gen = NoGen
    /\ endpoint_calls = 0
    /\ restarts = 0
    /\ last_submit = NoSubmit
    /\ last_nav = NoNav
    /\ final_submissions = 0
    /\ last_final = NoFinal

\* show_consent_page returning True without storing the flag.
show_consent_page_without_flag ==
    /\ page = -2
    /\ consent_given' = consent_given

\* show_consent_page with 'Agree and Continue' pressed.
show_consent_page ==
    /\ page = -2
    /\ consent_given' = TRUE

\* The caller of show_consent_page moves an agreeing session to the intake.
consent_to_intake ==
    page' = 0

AgreeAndContinue ==
    /\ show_consent_page
    /\ consent_to_intake
    /\ error' = <<>>
    /\ last_nav' = NoNav
    /\ last_flush' = NoFlush
    /\ last_gen' = NoGen
    /\ last_submit' = NoSubmit
    /\ UNCHANGED <<gen_vars, score_vars, export_vars>>
    /\ last_final' = NoFinal
    /\ UNCHANGED final_submissions
    /\ UNCHANGED <<pois_json, user_id, user_data, ai_content, survey_responses,
                   order_poi, widgets, temp_file, csv_writes,
                   endpoint_calls, restarts>>

\* 'Submit' on the intake form with a submission that breaks a rule:
\* show_user_details_form shows the errors and returns False, and main does
\* nothing more.
RejectUserDetails(livein_city, hobbies, preferred_travel_style, interests) ==
    /\ page = 0
    /\ validation_errors(livein_city, hobbies, preferred_travel_style,
                         interests) # <<>>
    /\ error' = validation_errors(livein_city, hobbies, preferred_travel_style,
                                  interests)
    /\ last_nav' = NoNav
    /\ last_flush' = NoFlush
    /\ last_gen' = NoGen
    /\ last_submit' =
           Submitted(livein_city, hobbies, preferred_travel_style, interests,
                     FALSE)
    /\ UNCHANGED <<gen_vars, score_vars, export_vars>>
    /\ last_final' = NoFinal
    /\ UNCHANGED final_submissions
    /\ UNCHANGED <<pois_json, page, consent_given, user_id, user_data,
                   ai_content, survey_responses, order_poi, widgets, temp_file,
                   csv_writes, endpoint_calls, restarts>>

\* 'Submit' on the intake form with a valid submission: the profile is
\* stored and main loads the catalog (returning when the loader returns
\* None, left by the exception when the loader raises), generates the
\* content of every POI, moves to page 1 and reruns the script, which
\* renders the first step.
AcceptUserDetails(livein_city, hobbies, preferred_travel_style, interests) ==
    /\ page = 0
    /\ validation_errors(livein_city, hobbies, preferred_travel_style,
                         interests) = <<>>
    /\ user_data' = UserData(livein_city, hobbies, preferred_travel_style,
                             interests)
    /\ LET poi_data == load_poi_data
       IN  IF ~poi_data.ok
           THEN /\ error' = poi_data.shown \o poi_data.raised
                /\ last_gen' = NoGen
                /\ UNCHANGED <<page, ai_content, order_poi, widgets, temp_file,
                               endpoint_calls>>
           ELSE \E outcomes \in [1..Len(poi_data.pois) -> SessionOutcomes],
                   coin \in Draws(order_poi, 1) :
                    LET content ==
                            generate_all_poi_content(poi_data.pois, outcomes)
                    IN  /\ ai_content' = content
                        /\ temp_file' = [exists |-> TRUE, content |-> content]
                        /\ endpoint_calls' =
                               endpoint_calls + Len(poi_data.pois)
                        /\ last_gen' =
                               [called |-> TRUE,
                                cache_existed |-> temp_file.exists,
                                cached |-> temp_file.content,
                                returned |-> content,
                                calls |-> Len(poi_data.pois),
                                outcomes |-> outcomes,
                                requested |->
                                    generation_calls(poi_data.pois),
                                progress |->
                                    reported_progress(poi_data.pois)]
                        /\ page' = 1
                        /\ order_poi' = order_after_render(order_poi, 1, coin)
                        /\ widgets' = widgets_after_render(1)
                        /\ error' = <<>>
    /\ last_nav' = NoNav
    /\ last_flush' = NoFlush
    /\ last_submit' =
           Submitted(livein_city, hobbies, preferred_travel_style, interests,
                     TRUE)
    /\ UNCHANGED <<gen_vars, score_vars, export_vars>>
    /\ last_final' = NoFinal
    /\ UNCHANGED final_submissions
    /\ UNCHANGED <<pois_json, consent_given, user_id, survey_responses,
                   csv_writes, restarts>>

\* A rerun of a comparison step after the respondent changed radios: the
\* browser reports the sheet, show_poi_comparison runs, no button is pressed.
Render(sheet) ==
    /\ OnComparisonStep
    /\ \E coin \in Draws(order_poi, page) :
           order_poi' = order_after_render(order_poi, page, coin)
    /\ widgets' = sheet
    /\ error' = <<>>
    /\ last_nav' = NoNav
    /\ last_flush' = NoFlush
    /\ last_gen' = NoGen
    /\ last_submit' = NoSubmit
    /\ UNCHANGED <<gen_vars, score_vars, export_vars>>
    /\ last_final' = NoFinal
    /\ UNCHANGED final_submissions
    /\ UNCHANGED <<pois_json, page, consent_given, user_id, user_data,
                   ai_content, survey_responses, temp_file, csv_writes,
                   endpoint_calls, restarts>>

\* 'Next'/'Finish' pressed with an unanswered question: _handle_navigation
\* shows the list and returns.
BlockedNavigation ==
    /\ OnComparisonStep
    /\ unanswered_questions(widgets) # <<>>
    /\ \E coin \in Draws(order_poi, page) :
           order_poi' = order_after_render(order_poi, page, coin)
    /\ error' = unanswered_questions(widgets)
    /\ last_nav' = Pressed(page - 1, widgets)
    /\ last_flush' = NoFlush
    /\ last_gen' = NoGen
    /\ last_submit' = NoSubmit
    /\ UNCHANGED <<gen_vars, score_vars, export_vars>>
    /\ last_final' = NoFinal
    /\ UNCHANGED final_submissions
    /\ UNCHANGED <<pois_json, page, consent_given, user_id, user_data,
                   ai_content, survey_responses, widgets, temp_file,
                   csv_writes, endpoint_calls, restarts>>

\* The page after 'Next' with a step left out.
next_page_skipping(p) == p + 2

\* st.session_state.page += 1
next_page(p) == p + 1

\* _handle_navigation past its validation, on a step that is not the last:
\* the record is appended, the page advances and the rerun renders the next
\* step.
AcceptedNext(coin) ==
    LET poi_data == load_poi_data
        poi == poi_data.pois[page]
        is_manual_first == order_after_render(order_poi, page, coin)[poi.id]
    IN  /\ OnComparisonStep
        /\ unanswered_questions(widgets) = <<>>
        /\ has_next_step(page - 1, poi_data)
        /\ survey_responses' =
               Append(survey_responses, Response(poi, is_manual_first))
        /\ page' = next_page(page)
        /\ \E coin2 \in Draws(order_after_render(order_poi, page, coin),
                              next_page(page)) :
               order_poi' =
                   order_after_render(
                       order_after_render(order_poi, page, coin),
                       next_page(page), coin2)
        /\ widgets' = widgets_after_render(next_page(page))
        /\ error' = <<>>
        /\ last_nav' = Pressed(page - 1, widgets)
        /\ last_flush' = NoFlush
        /\ last_gen' = NoGen
        /\ last_submit' = NoSubmit
        /\ UNCHANGED <<gen_vars, score_vars, export_vars>>
        /\ last_final' = NoFinal
        /\ UNCHANGED final_submissions
        /\ UNCHANGED <<pois_json, consent_given, user_id, user_data, ai_content,
                       temp_file, csv_writes, endpoint_calls,
                       restarts>>

\* _handle_navigation past its validation, on the last step: the record is
\* appended and save_response writes the whole list to a new CSV file. When
\* the write succeeds the page becomes -1; when it raises, the exception
\* leaves _handle_navigation before the page is set.
AcceptedFinish(coin, write_ok) ==
    LET poi_data == load_poi_data
        poi == poi_data.pois[page]
        is_manual_first == order_after_render(order_poi, page, coin)[poi.id]
        responses == Append(survey_responses, Response(poi, is_manual_first))
        flush == save_response(responses, write_ok)
    IN  /\ OnComparisonStep
        /\ unanswered_questions(widgets) = <<>>
        /\ ~has_next_step(page - 1, poi_data)
        /\ write_ok \/ Len(responses) < Len(poi_data.pois) + MaxFlushFailures
        /\ order_poi' = order_after_render(order_poi, page, coin)
        /\ survey_responses' = responses
        /\ last_flush' =
               [called |-> TRUE, responses |-> responses, ok |-> write_ok]
        /\ csv_writes' = csv_writes + flush.files
        /\ IF ~flush.raised
           THEN /\ page' = -1
                /\ widgets' = EmptyMap
                /\ error' = <<>>
           ELSE /\ error' = <<"OSError">>
                /\ UNCHANGED <<page, widgets>>
        /\ last_nav' = Pressed(page - 1, widgets)
        /\ last_gen' = NoGen
        /\ last_submit' = NoSubmit
        /\ UNCHANGED <<gen_vars, score_vars, export_vars>>
        /\ last_final' = NoFinal
        /\ UNCHANGED final_submissions
        /\ UNCHANGED <<pois_json, consent_given, user_id, user_data, ai_content,
                       temp_file, endpoint_calls, restarts>>

\* A rating radio of the final questionnaire: 'No Selection' or 1..5.
NoRating == [selected |-> FALSE, value |-> 0]
Rating(n) == [selected |-> TRUE, value |-> n]
\* The three rating radios as the browser may report them: all selected, or
\* the first left at its default.
FinalSheets ==
    {[overall_rating |-> o, adaptation_rating |-> Rating(1),
      ai_comfort_rating |-> Rating(5)] : o \in {NoRating, Rating(4)}}

\* FinalSurveyResponse with ratings declared Optional[int]: None is taken.
FinalSurveyResponse_accepting_none(overall_rating, adaptation_rating, ai_comfort_rating) ==
    [raised |-> FALSE,
     overall_rating |-> overall_rating.value,
     adaptation_rating |-> adaptation_rating.value,
     ai_comfort_rating |-> ai_comfort_rating.value]

\* FinalSurveyResponse(...): a 'No Selection' rating is passed as None, which
\* the int fields of the model reject (the constructor raises).
FinalSurveyResponse(overall_rating, adaptation_rating, ai_comfort_rating) ==
    [raised |-> ~(overall_rating.selected /\ adaptation_rating.selected
                  /\ ai_comfort_rating.selected),
     overall_rating |-> overall_rating.value,
     adaptation_rating |-> adaptation_rating.value,
     ai_comfort_rating |-> ai_comfort_rating.value]

\* SurveyResponseService.save_final_response: pd.DataFrame([response.dict()])
\* written to a new CSV file, or the exception of a write that fails.
save_final_response(response, write_ok) ==
    [raised |-> ~write_ok,
     rows |-> IF write_ok
              THEN << [overall_rating |-> response.overall_rating,
                       adaptation_rating |-> response.adaptation_rating,
                       ai_comfort_rating |-> response.ai_comfort_rating] >>
              ELSE <<>>]

\* 'Submit' on the final questionnaire: the response is built and
\* save_final_response writes it as the one row of a new CSV file; the page
\* is left as it is. The constructor's exception ends the script run before
\* the save.
SubmitFinalFeedback(sheet, write_ok) ==
    LET final_response ==
            FinalSurveyResponse(sheet.overall_rating, sheet.adaptation_rating,
                                sheet.ai_comfort_rating)
        saved == save_final_response(final_response, write_ok)
    IN  /\ page = -1
        /\ final_submissions < MaxFinalSubmissions
        /\ IF final_response.raised
           THEN /\ error' = <<"ValidationError">>
                /\ last_final' = [made |-> TRUE, sheet |-> sheet, rows |-> <<>>]
                /\ UNCHANGED final_submissions
           ELSE IF saved.raised
           THEN /\ error' = <<"OSError">>
                /\ last_final' = [made |-> TRUE, sheet |-> sheet, rows |-> <<>>]
                /\ UNCHANGED final_submissions
           ELSE /\ error' = <<>>
                /\ last_final' =
                       [made |-> TRUE, sheet |-> sheet, rows |-> saved.rows]
                /\ final_submissions' = final_submissions + 1
        /\ last_nav' = NoNav
        /\ last_flush' = NoFlush
        /\ last_gen' = NoGen
        /\ last_submit' = NoSubmit
        /\ UNCHANGED <<gen_vars, score_vars, export_vars>>
        /\ UNCHANGED <<pois_json, page, consent_given, user_id, user_data,
                       ai_content, survey_responses, order_poi, widgets,
                       temp_file, csv_writes, endpoint_calls, restarts>>

\* 'Start New Survey' on the page shown after the flush.
StartNewSurvey ==
    /\ page = -1
    /\ restarts < MaxRestarts
    /\ page' = 0
    /\ user_data' = EmptyMap
    /\ survey_responses' = <<>>
    /\ restarts' = restarts + 1
    /\ widgets' = EmptyMap
    /\ error' = <<>>
    /\ final_submissions' = 0
    /\ last_final' = NoFinal
    /\ last_nav' = NoNav
    /\ last_flush' = NoFlush
    /\ last_gen' = NoGen
    /\ last_submit' = NoSubmit
    /\ UNCHANGED <<gen_vars, score_vars, export_vars>>
    /\ UNCHANGED <<pois_json, consent_given, user_id, ai_content, order_poi,
                   temp_file, csv_writes, endpoint_calls>>

\* ------------------------------------------------------ the survey session

vars == <<session_vars, gen_vars, score_vars, export_vars>>

\* generate_ai_content is not running.
GenIdle ==
    /\ gen_pc = "off"
    /\ gen_poi = POI(1)
    /\ gen_outcome = Fault
    /\ gen_result = [title |-> <<>>, description |-> <<>>]

\* The aggregation pipeline is not running.
ScoreIdle ==
    /\ df_pc = "off"
    /\ df = <<>>
    /\ df_columns = {}
    /\ df_before = [columns |-> {}, rows |-> <<>>]
    /\ df_error = <<>>
    /\ csv_files = <<>>
    /\ user_aggs = <<>>

\* No session is flushing.
ExportIdle ==
    /\ clock = 0
    /\ survey_results = EmptyMap
    /\ flushes = EmptyMap

Init == SessionInit /\ GenIdle /\ ScoreIdle /\ ExportIdle

Next ==
    \/ AgreeAndContinue
    \/ \E c \in Cities, h \in Ticked(HOBBIES), t \in Ticked(TRAVEL_STYLES),
          i \in Ticked(TRAVEL_INTERESTS) : RejectUserDetails(c, h, t, i)
    \/ \E c \in Cities, h \in Ticked(HOBBIES), t \in Ticked(TRAVEL_STYLES),
          i \in Ticked(TRAVEL_INTERESTS) : AcceptUserDetails(c, h, t, i)
    \/ \E sheet \in AnswerSheets : Render(sheet)
    \/ BlockedNavigation
    \/ \E coin \in Draws(order_poi, page) : AcceptedNext(coin)
    \/ \E coin \in Draws(order_poi, page), write_ok \in BOOLEAN :
           AcceptedFinish(coin, write_ok)
    \/ \E sheet \in FinalSheets, write_ok \in BOOLEAN :
           SubmitFinalFeedback(sheet, write_ok)
    \/ StartNewSurvey

Spec == Init /\ [][Next]_vars

\* The session of a respondent who goes on and whose flush does not fail:
\* every step the script can take except a 'Finish' whose CSV write fails;
\* on a comparison step the respondent sooner or later has every question
\* answered, and a click that is possible again and again is made.
LiveNext ==
    \/ AgreeAndContinue
    \/ \E c \in Cities, h \in Ticked(HOBBIES), t \in Ticked(TRAVEL_STYLES),
          i \in Ticked(TRAVEL_INTERESTS) : RejectUserDetails(c, h, t, i)
    \/ \E c \in Cities, h \in Ticked(HOBBIES), t \in Ticked(TRAVEL_STYLES),
          i \in Ticked(TRAVEL_INTERESTS) : AcceptUserDetails(c, h, t, i)
    \/ \E sheet \in AnswerSheets : Render(sheet)
    \/ BlockedNavigation
    \/ \E coin \in Draws(order_poi, page) : AcceptedNext(coin)
    \/ \E coin \in Draws(order_poi, page) : AcceptedFinish(coin, TRUE)
    \/ \E sheet \in FinalSheets, write_ok \in BOOLEAN :
           SubmitFinalFeedback(sheet, write_ok)
    \/ StartNewSurvey

SpecLive ==
    /\ Init
    /\ [][LiveNext]_vars
    /\ WF_vars(Render(FullSheet("Version A")))
    /\ SF_vars(\E coin \in Draws(order_poi, page) : AcceptedNext(coin))
    /\ SF_vars(\E coin \in Draws(order_poi, page) : AcceptedFinish(coin, TRUE))

\* ------------------------------------- generate_ai_content on its own

\* Largest original title, original description and generated description.
MaxTitleLen == 2
MaxDescriptionLen == 2
MaxGeneratedLen == 4

Alphabet == {"a", " ", "\t"}

\* The texts over the alphabet of at most n characters.
Text(n) == UNION {[1..k -> Alphabet] : k \in 0..n}

\* The titles of at most n characters.
Titles(n) == {[i \in 1..k |-> "a"] : k \in 1..n}

GenPOIs ==
    {[id |-> 1, title |-> t, description |-> d] :
        t \in Titles(MaxTitleLen), d \in Text(MaxDescriptionLen) \ {<<>>}}

GenOutcomes ==
    {Fault} \cup {Reply(t, d) : t \in Titles(MaxTitleLen + 1),
                                d \in Text(MaxGeneratedLen)}

\* No session is running.
SessionIdle ==
    /\ SessionInit
    /\ pois_json = MissingDocument

GenInit ==
    /\ SessionIdle
    /\ ScoreIdle
    /\ ExportIdle
    /\ gen_pc = "ready"
    /\ gen_poi \in GenPOIs
    /\ gen_outcome = Fault
    /\ gen_result = [title |-> <<>>, description |-> <<>>]

\* One call of generate_ai_content(gen_poi, user_data), the endpoint doing
\* outcome.
GenerateAIContent(outcome) ==
    /\ gen_pc = "ready"
    /\ gen_outcome' = outcome
    /\ gen_result' = generate_ai_content(gen_poi, outcome)
    /\ gen_pc' = "returned"
    /\ UNCHANGED <<gen_poi, session_vars, score_vars, export_vars>>

GenNext == \E outcome \in GenOutcomes : GenerateAIContent(outcome)

SpecGen == GenInit /\ [][GenNext]_vars

\* ------------------------------------------------ the aggregation pipeline

\* Rows of the largest table of the score checks.
MaxRows == 1
\* CSV files of the fullest directory.
MaxFiles == 2

ValueError == <<"ValueError">>

list_columns == <<"hobbies", "interests", "preferred_travel_style">>

preference_cols ==
    <<"engaging_preference", "relevant_preference", "eager_preference",
      "title_preference", "description_preference">>

PreferenceColumns ==
    {"engaging_preference", "relevant_preference", "eager_preference",
     "title_preference", "description_preference"}

\* f'{col}_score'
ScoreColumn(col) ==
    CASE col = "engaging_preference" -> "engaging_preference_score"
      [] col = "relevant_preference" -> "relevant_preference_score"
      [] col = "eager_preference" -> "eager_preference_score"
      [] col = "title_preference" -> "title_preference_score"
      [] col = "description_preference" -> "description_preference_score"

\* The six rating columns of an export.
RatingColumns ==
    {"manual_significance", "manual_trust", "manual_clarity",
     "ai_significance", "ai_trust", "ai_clarity"}

\* The rating columns aggregate_user_responses has an entry for.
AggregatedRatingColumns == {"manual_significance", "ai_significance"}

\* The columns of an export the pipeline reads (the demographic columns,
\* which it copies, are left out).
ExportColumns ==
    {"user_id", "is_manual_first", "timestamp", "hobbies", "interests",
     "preferred_travel_style"} \cup PreferenceColumns \cup RatingColumns

\* A number of a score column, or the missing value NaN.
Num(n) == [nan |-> FALSE, value |-> n]
NaN == [nan |-> TRUE, value |-> 0]

\* The cells a preference column of a CSV export may hold; the empty cell
\* is read as a missing value.
MissingCell == ""
PreferenceCells ==
    {"Version A", "Version B", "Both equally", "No Selection", "version a",
     MissingCell}

\* A cell of a list or timestamp column: missing (NaN, NaT), the text
\* read_csv gives, or the value a processing step has put there.
NaNCell == [kind |-> "nan", text |-> "", items |-> <<>>]
TextCell(t) == [kind |-> "str", text |-> t, items |-> <<>>]
ListCell(items) == [kind |-> "list", text |-> "", items |-> items]
DatetimeCell(t) == [kind |-> "datetime", text |-> t, items |-> <<>>]

\* The user_id of a row that has none (NaN).
MissingId == 0

\* The texts of the model's list cells: two the app writes, and one that is
\* no Python literal.
HobbiesText == "['Reading', 'Writing', 'Sports']"
EmptyListText == "[]"
UnparsableText == "Reading, Writing, Sports"
TimestampText == "2025-01-31T10:15:00"

\* ast.literal_eval on a cell's text.
literal_eval(t) ==
    CASE t = HobbiesText ->
             [raised |-> FALSE, value |-> <<"Reading", "Writing", "Sports">>]
      [] t = EmptyListText -> [raised |-> FALSE, value |-> <<>>]
      [] OTHER -> [raised |-> TRUE, value |-> <<>>]

\* lambda x: ast.literal_eval(x) if pd.notna(x) else [] on one cell. For a
\* cell that is a list already, pd.notna gives an array: its truth value
\* raises for two or more items, is True for one (and literal_eval then
\* rejects the list), and for none is False or raises, by the numpy version
\* (empty_array_raises).
parse_list_cell(x, empty_array_raises) ==
    CASE x.kind = "nan" -> [raised |-> FALSE, value |-> ListCell(<<>>)]
      [] x.kind = "str" ->
             [raised |-> literal_eval(x.text).raised,
              value |-> ListCell(literal_eval(x.text).value)]
      [] OTHER ->
             IF x.items = <<>>
             THEN [raised |-> empty_array_raises, value |-> ListCell(<<>>)]
             ELSE [raised |-> TRUE, value |-> x]

\* pd.to_datetime on one cell, and the .dt.date and .dt.time of the result.
to_datetime(x) ==
    CASE x.kind = "nan" -> [raised |-> FALSE, value |-> NaNCell]
      [] x.kind = "datetime" -> [raised |-> FALSE, value |-> x]
      [] x.kind = "str" /\ x.text = TimestampText ->
             [raised |-> FALSE, value |-> DatetimeCell(x.text)]
      [] OTHER -> [raised |-> TRUE, value |-> x]

dt_date(x) == IF x.kind = "datetime" THEN "2025-01-31" ELSE "NaT"
dt_time(x) == IF x.kind = "datetime" THEN "10:15:00" ELSE "NaT"

\* The mapping with the signs of the two versions exchanged.
score_map_exchanged(cell) ==
    CASE cell = "Version A" -> Num(-1)
      [] cell = "Version B" -> Num(1)
      [] cell = "Both equally" -> Num(0)
      [] OTHER -> NaN

\* Series.map with the dict of process_survey_responses.
score_map(cell) ==
    CASE cell = "Version A" -> Num(1)
      [] cell = "Version B" -> Num(-1)
      [] cell = "Both equally" -> Num(0)
      [] OTHER -> NaN

\* RATING_SCALE, TRUST_SCALE and CLARITY_SCALE of config/constants.py.
RATING_SCALE == <<"Strongly Disagree", "Disagree", "Neutral", "Agree", "Strongly Agree">>
TRUST_SCALE == <<"Not at all", "Slightly", "Moderately", "Very", "Extremely">>
CLARITY_SCALE == <<"Very Unclear", "Unclear", "Neutral", "Clear", "Very Clear">>

\* The scale a rating column's radio offers.
ScaleOf(col) ==
    CASE col \in {"manual_significance", "ai_significance"} -> RATING_SCALE
      [] col \in {"manual_trust", "ai_trust"} -> TRUST_SCALE
      [] col \in {"manual_clarity", "ai_clarity"} -> CLARITY_SCALE

\* The six ratings of a respondent who picks the k-th option of every scale
\* for the manual_ columns and the option mirrored to it for the ai_ ones.
Ratings(k) ==
    [c \in RatingColumns |->
        IF c \in {"manual_significance", "manual_trust", "manual_clarity"}
        THEN ScaleOf(c)[k] ELSE ScaleOf(c)[6 - k]]

\* The ratings of user u in the model's exports: user 1 picks the top
\* option, user 2 the second lowest.
RatingsOfUser(u) == IF u = 1 THEN Ratings(5) ELSE Ratings(2)

\* x.map({...}) of the two lambdas of aggregate_user_responses.
significance_map(cell) ==
    CASE cell = "Strongly Agree" -> Num(5)
      [] cell = "Agree" -> Num(4)
      [] cell = "Neutral" -> Num(3)
      [] cell = "Disagree" -> Num(2)
      [] cell = "Strongly Disagree" -> Num(1)
      [] OTHER -> NaN

\* A row of a table of survey responses, its three list cells alike and its
\* ratings those of its user. The columns a table lacks hold the missing
\* value in its rows; df.columns tells which exist.
SurveyRow(user_id_, is_manual_first, list_cell, preference) ==
    [user_id |-> user_id_,
     rating |-> RatingsOfUser(user_id_),
     is_manual_first |-> is_manual_first,
     timestamp |-> TextCell(TimestampText),
     response_date |-> "NaT",
     response_time |-> "NaT",
     lists |-> [c \in {"hobbies", "interests", "preferred_travel_style"} |->
                   list_cell],
     preference |-> preference,
     score |-> [c \in PreferenceColumns |-> NaN]]

\* The rows of the score checks: one preference column differing from the
\* others, the list cells as the app writes them.
RawRows ==
    {SurveyRow(1, m, TextCell(HobbiesText),
               [c \in PreferenceColumns |-> IF c = col THEN v ELSE w]) :
        m \in BOOLEAN, col \in PreferenceColumns,
        v \in PreferenceCells, w \in PreferenceCells}

\* Line 42 for one list column.
ConvertListColumn(t, col, empty_array_raises) ==
    IF col \notin t.columns THEN [raised |-> KeyError, table |-> t]
    ELSE IF \E r \in DOMAIN t.rows :
                parse_list_cell(t.rows[r].lists[col], empty_array_raises).raised
    THEN [raised |-> ValueError, table |-> t]
    ELSE [raised |-> <<>>,
          table |->
              [t EXCEPT !.rows =
                  [r \in DOMAIN t.rows |->
                      [t.rows[r] EXCEPT !.lists[col] =
                          parse_list_cell(@, empty_array_raises).value]]]]

\* Lines 45-49: the timestamp column converted in place, response_date and
\* response_time added.
ConvertTimestamp(t) ==
    IF "timestamp" \notin t.columns THEN [raised |-> KeyError, table |-> t]
    ELSE IF \E r \in DOMAIN t.rows : to_datetime(t.rows[r].timestamp).raised
    THEN [raised |-> ValueError, table |-> t]
    ELSE [raised |-> <<>>,
          table |->
              [columns |-> t.columns \cup {"response_date", "response_time"},
               rows |->
                   [r \in DOMAIN t.rows |->
                       [t.rows[r] EXCEPT
                           !.timestamp = to_datetime(@).value,
                           !.response_date =
                               dt_date(to_datetime(t.rows[r].timestamp).value),
                           !.response_time =
                               dt_time(to_datetime(t.rows[r].timestamp).value)]]]]

\* Lines 56-60 for one preference column.
AddScoreColumn(t, col) ==
    IF col \notin t.columns THEN [raised |-> KeyError, table |-> t]
    ELSE [raised |-> <<>>,
          table |->
              [columns |-> t.columns \cup {ScoreColumn(col)},
               rows |->
                   [r \in DOMAIN t.rows |->
                       [t.rows[r] EXCEPT !.score[col] =
                           score_map(t.rows[r].preference[col])]]]]

\* The k-th assignment of process_survey_responses.
ProcessingStep(t, k, empty_array_raises) ==
    IF k <= Len(list_columns)
    THEN ConvertListColumn(t, list_columns[k], empty_array_raises)
    ELSE IF k = Len(list_columns) + 1 THEN ConvertTimestamp(t)
    ELSE AddScoreColumn(t, preference_cols[k - Len(list_columns) - 1])

RECURSIVE RunProcessingSteps(_, _, _)
\* The assignments from the k-th on, each made on the table itself: an
\* exception leaves the table as the assignments before it have made it.
RunProcessingSteps(t, k, empty_array_raises) ==
    IF k > Len(list_columns) + 1 + Len(preference_cols)
    THEN [raised |-> <<>>, table |-> t]
    ELSE LET step == ProcessingStep(t, k, empty_array_raises)
         IN  IF step.raised # <<>> THEN step
             ELSE RunProcessingSteps(step.table, k + 1, empty_array_raises)

\* process_survey_responses(df): the table it returns is df itself.
process_survey_responses(t, empty_array_raises) ==
    RunProcessingSteps(t, 1, empty_array_raises)

\* Which text show_poi_comparison puts in box A, and which in box B.
description_a(is_manual_first) == IF is_manual_first THEN "manual" ELSE "ai"
description_b(is_manual_first) == IF is_manual_first THEN "ai" ELSE "manual"

\* The table the state holds.
survey_df == [columns |-> df_columns, rows |-> df]

ScoreInit ==
    /\ SessionIdle
    /\ GenIdle
    /\ ExportIdle
    /\ df_pc = "raw"
    /\ df \in UNION {[1..n -> RawRows] : n \in 1..MaxRows}
    /\ df_columns = ExportColumns
    /\ df_before = [columns |-> {}, rows |-> <<>>]
    /\ df_error = <<>>
    /\ csv_files = <<>>
    /\ user_aggs = <<>>

\* processed_survey_df = process_survey_responses(survey_df)
ProcessSurveyResponses ==
    /\ df_pc = "raw"
    /\ \E empty_array_raises \in BOOLEAN :
           LET result == process_survey_responses(survey_df, empty_array_raises)
           IN  /\ df' = result.table.rows
               /\ df_columns' = result.table.columns
               /\ df_error' = result.raised
               /\ df_pc' = IF result.raised = <<>> THEN "processed" ELSE "raised"
    /\ df_before' = survey_df
    /\ UNCHANGED <<csv_files, user_aggs>>
    /\ UNCHANGED <<session_vars, gen_vars, export_vars>>

ScoreNext == ProcessSurveyResponses

SpecScore == ScoreInit /\ [][ScoreNext]_vars

\* --------------------------------------- the pipeline of data_analysis/main

\* The headers an export may have: the full one, or one column short.
FileColumnSets ==
    {ExportColumns}
    \cup {ExportColumns \ {c} :
             c \in {"hobbies", "timestamp", "user_id", "title_preference"}}

\* The exports of the directory, each the flush of a one-POI survey: full
\* exports of two users with list cells that are a list, no list or empty
\* and the five preferences alike; and exports one column short.
CSVFiles ==
    {[columns |-> ExportColumns,
      rows |-> << SurveyRow(u, TRUE, cell, [c \in PreferenceColumns |-> v]) >>] :
        u \in {1, 2},
        cell \in {TextCell(HobbiesText), TextCell(UnparsableText), NaNCell},
        v \in {"Version A", "Version B", "No Selection"}}
    \cup
    {[columns |-> cols,
      rows |-> << SurveyRow(1, TRUE, TextCell(HobbiesText),
                            [c \in PreferenceColumns |-> "Version A"]) >>] :
        cols \in FileColumnSets \ {ExportColumns}}

\* A row of a file in the concatenated table: the columns the file lacks
\* hold the missing value.
Reindexed(row, columns) ==
    [row EXCEPT
        !.user_id = IF "user_id" \in columns THEN @ ELSE MissingId,
        !.timestamp = IF "timestamp" \in columns THEN @ ELSE NaNCell,
        !.lists = [c \in DOMAIN @ |-> IF c \in columns THEN @[c] ELSE NaNCell],
        !.rating =
            [c \in DOMAIN @ |-> IF c \in columns THEN @[c] ELSE MissingCell],
        !.preference =
            [c \in DOMAIN @ |-> IF c \in columns THEN @[c] ELSE MissingCell]]

RECURSIVE ConcatRows(_)
ConcatRows(files) ==
    IF files = <<>> THEN <<>>
    ELSE [r \in DOMAIN Head(files).rows |->
             Reindexed(Head(files).rows[r], Head(files).columns)]
         \o ConcatRows(Tail(files))

\* load_survey_responses: pd.concat of the files read, which raises when
\* there is none.
load_survey_responses(files) ==
    IF files = <<>>
    THEN [raised |-> ValueError, table |-> [columns |-> {}, rows |-> <<>>]]
    ELSE [raised |-> <<>>,
          table |-> [columns |-> UNION {files[i].columns : i \in DOMAIN files},
                     rows |-> ConcatRows(files)]]

Min(S) == CHOOSE x \in S : \A y \in S : x <= y

RECURSIVE Ascending(_)
\* The group keys in the order groupby gives them.
Ascending(S) ==
    IF S = {} THEN <<>> ELSE <<Min(S)>> \o Ascending(S \ {Min(S)})

RECURSIVE ScoreSum(_, _, _)
ScoreSum(t, R, col) ==
    IF R = {} THEN 0
    ELSE LET r == CHOOSE x \in R : TRUE
         IN  t.rows[r].score[col].value + ScoreSum(t, R \ {r}, col)

\* 'mean' of a score column over the rows R: the missing scores are skipped,
\* and the mean of none is missing. The mean is sum / count.
NaNMean == [nan |-> TRUE, sum |-> 0, count |-> 0]
GroupMean(t, R, col) ==
    LET present == {r \in R : ~t.rows[r].score[col].nan}
    IN  IF present = {} THEN NaNMean
        ELSE [nan |-> FALSE, sum |-> ScoreSum(t, present, col),
              count |-> Cardinality(present)]

RECURSIVE MappedSum(_, _, _)
MappedSum(t, R, col) ==
    IF R = {} THEN 0
    ELSE LET r == CHOOSE x \in R : TRUE
         IN  significance_map(t.rows[r].rating[col]).value
                 + MappedSum(t, R \ {r}, col)

\* lambda x: x.map({...}).mean() over the rows R of a rating column: the
\* cells the dict has no key for are missing and skipped.
SignificanceMean(t, R, col) ==
    LET present == {r \in R : ~significance_map(t.rows[r].rating[col]).nan}
    IN  IF present = {} THEN NaNMean
        ELSE [nan |-> FALSE, sum |-> MappedSum(t, present, col),
              count |-> Cardinality(present)]

\* aggregate_user_responses: groupby('user_id') leaves out the rows whose
\* key is missing and raises for a missing column (the 'first' columns of
\* the demographics are left out).
aggregate_user_responses(t) ==
    IF "user_id" \notin t.columns
       \/ \E c \in PreferenceColumns : ScoreColumn(c) \notin t.columns
       \/ AggregatedRatingColumns \ t.columns # {}
    THEN [raised |-> KeyError, table |-> <<>>]
    ELSE LET keys ==
                 Ascending({t.rows[r].user_id : r \in DOMAIN t.rows}
                           \ {MissingId})
         IN  [raised |-> <<>>,
              table |->
                  [g \in DOMAIN keys |->
                      [user_id |-> keys[g],
                       rating_mean |->
                           [c \in AggregatedRatingColumns |->
                               SignificanceMean(t,
                                                {r \in DOMAIN t.rows :
                                                    t.rows[r].user_id = keys[g]},
                                                c)],
                       mean |->
                           [c \in PreferenceColumns |->
                               GroupMean(t,
                                         {r \in DOMAIN t.rows :
                                             t.rows[r].user_id = keys[g]},
                                         c)]]]]

PipelineInit ==
    /\ SessionIdle
    /\ GenIdle
    /\ ExportIdle
    /\ df_pc = "start"
    /\ csv_files \in UNION {[1..n -> CSVFiles] : n \in 0..MaxFiles}
    /\ df = <<>>
    /\ df_columns = {}
    /\ df_before = [columns |-> {}, rows |-> <<>>]
    /\ df_error = <<>>
    /\ user_aggs = <<>>

\* survey_df = load_survey_responses(...)
LoadSurveyResponses ==
    /\ df_pc = "start"
    /\ LET result == load_survey_responses(csv_files)
       IN  /\ df' = result.table.rows
           /\ df_columns' = result.table.columns
           /\ df_error' = result.raised
           /\ df_pc' = IF result.raised = <<>> THEN "raw" ELSE "raised"
    /\ UNCHANGED <<df_before, csv_files, user_aggs>>
    /\ UNCHANGED <<session_vars, gen_vars, export_vars>>

\* process_survey_responses applied to the table it has returned.
ProcessAgain ==
    /\ df_pc = "processed"
    /\ \E empty_array_raises \in BOOLEAN :
           LET result == process_survey_responses(survey_df, empty_array_raises)
           IN  /\ df' = result.table.rows
               /\ df_columns' = result.table.columns
               /\ df_error' = result.raised
               /\ df_pc' = IF result.raised = <<>>
                           THEN "reprocessed" ELSE "raised_again"
    /\ df_before' = survey_df
    /\ UNCHANGED <<csv_files, user_aggs>>
    /\ UNCHANGED <<session_vars, gen_vars, export_vars>>

\* user_aggs_df = aggregate_user_responses(processed_survey_df)
AggregateUserResponses ==
    /\ df_pc = "processed"
    /\ LET result == aggregate_user_responses(survey_df)
       IN  /\ user_aggs' = result.table
           /\ df_error' = result.raised
           /\ df_pc' = IF result.raised = <<>> THEN "aggregated" ELSE "raised"
    /\ UNCHANGED <<df, df_columns, df_before, csv_files>>
    /\ UNCHANGED <<session_vars, gen_vars, export_vars>>

PipelineNext ==
    \/ LoadSurveyResponses
    \/ ProcessSurveyResponses
    \/ ProcessAgain
    \/ AggregateUserResponses

SpecPipeline == PipelineInit /\ [][PipelineNext]_vars

\* ------------------------------------- concurrent flushes of two sessions

\* The last tick of the clock, and the rows of the longest export.
MaxClock == 3
MaxExportRows == 2

\* Ticks of the clock in one second: datetime.now() is finer than the
\* second the file name keeps.
TicksPerSecond == 2

\* The sessions flushing at about the same time.
Sessions == {1, 2}

\* datetime.now().strftime("%Y%m%d_%H%M%S"): the second of the tick, the
\* fraction dropped.
strftime(now) == now \div TicksPerSecond

\* The rows pd.DataFrame(responses) holds for a session with n records.
ExportRows(session, n) == [k \in 1..n |-> [session |-> session, row |-> k]]

\* The file after a writer that opened it in mode 'a' has written content.
written_at_end(old, content) == old \o content

\* The file after a writer that opened it in mode 'w' has written content
\* from its own position 0: what another writer has put beyond the length
\* of content stays.
written(old, content) ==
    content \o SubSeq(old, Len(content) + 1, Len(old))

\* The opens and writes made so far.
FileOperations ==
    LET Of(s) == CASE flushes[s].pc = "open" -> 1
                   [] flushes[s].pc = "done" -> 2
                   [] OTHER -> 0
    IN  Of(1) + Of(2)

ExportInit ==
    /\ SessionIdle
    /\ GenIdle
    /\ ScoreIdle
    /\ clock = 0
    /\ survey_results = EmptyMap
    /\ flushes \in [Sessions -> {[pc |-> "called", rows |-> n, timestamp |-> 0,
                                   opened |-> 0, wrote |-> 0] :
                                     n \in 1..MaxExportRows}]

\* Time passes.
Tick ==
    /\ clock < MaxClock
    /\ clock' = clock + 1
    /\ UNCHANGED <<survey_results, flushes>>
    /\ UNCHANGED <<session_vars, gen_vars, score_vars>>

\* timestamp = datetime.now().strftime(...)
TakeTimestamp(session) ==
    /\ flushes[session].pc = "called"
    /\ flushes' = [flushes EXCEPT ![session].pc = "named",
                                  ![session].timestamp = strftime(clock)]
    /\ UNCHANGED <<clock, survey_results>>
    /\ UNCHANGED <<session_vars, gen_vars, score_vars>>

\* df.to_csv opening survey_responses_<timestamp>.csv in mode 'w': the file
\* is created, or emptied when it exists.
OpenFile(session) ==
    /\ flushes[session].pc = "named"
    /\ survey_results' =
           [name \in DOMAIN survey_results \cup {flushes[session].timestamp} |->
               IF name = flushes[session].timestamp THEN <<>>
               ELSE survey_results[name]]
    /\ flushes' = [flushes EXCEPT ![session].pc = "open",
                                  ![session].opened = FileOperations + 1]
    /\ UNCHANGED clock
    /\ UNCHANGED <<session_vars, gen_vars, score_vars>>

\* df.to_csv writing the rows and closing the file.
WriteFile(session) ==
    /\ flushes[session].pc = "open"
    /\ survey_results' =
           [survey_results EXCEPT ![flushes[session].timestamp] =
               written(@, ExportRows(session, flushes[session].rows))]
    /\ flushes' = [flushes EXCEPT ![session].pc = "done",
                                  ![session].wrote = FileOperations + 1]
    /\ UNCHANGED clock
    /\ UNCHANGED <<session_vars, gen_vars, score_vars>>

ExportNext ==
    \/ Tick
    \/ \E session \in Sessions : TakeTimestamp(session)
    \/ \E session \in Sessions : OpenFile(session)
    \/ \E session \in Sessions : WriteFile(session)

SpecExport == ExportInit /\ [][ExportNext]_vars

\* ------------------------------------------------------------ the claims

\* The POIs of the catalog the session runs on.
CatalogPOIs == load_poi_data.pois

RecordsOf(responses, id) ==
    {k \in 1..Len(responses) : responses[k].poi_id = id}

\* C1: the list of records passed to the bulk flush has exactly N entries,
\* N the number of POIs of the catalog: one for each POI, none duplicated and
\* none skipped.
C1_FlushHoldsOneRecordPerPOI ==
    last_flush.called =>
        /\ Len(last_flush.responses) = Len(CatalogPOIs)
        /\ \A i \in 1..Len(CatalogPOIs) :
               Cardinality(RecordsOf(last_flush.responses,
                                     CatalogPOIs[i].id)) = 1

AtMostOneRecordPerPOI ==
    \A i, j \in 1..Len(survey_responses) :
        i # j => survey_responses[i].poi_id # survey_responses[j].poi_id

AppendOnlyStep ==
    \/ survey_responses' = survey_responses
    \/ /\ Len(survey_responses') = Len(survey_responses) + 1
       /\ SubSeq(survey_responses', 1, Len(survey_responses)) = survey_responses
    \/ restarts' # restarts

\* C2: in every state survey_responses holds at most one record per POI id,
\* and every step other than a restart leaves the list unchanged or appends
\* one record at its end.
C2_OneRecordPerPOIAppendOnly ==
    []AtMostOneRecordPerPOI /\ [][AppendOnlyStep]_vars

SlotsOfRecordsAndStep ==
    /\ OnComparisonStep => CatalogPOIs[page].id \in DOMAIN order_poi
    /\ \A k \in 1..Len(survey_responses) :
           /\ survey_responses[k].poi_id \in DOMAIN order_poi
           /\ survey_responses[k].is_manual_first
                  = order_poi[survey_responses[k].poi_id]

SlotsKept ==
    \A id \in DOMAIN order_poi :
        id \in DOMAIN order_poi' /\ order_poi'[id] = order_poi[id]

\* C3: the slot assignment of a POI exists from the first render of its step,
\* no later step changes it, and is_manual_first of the POI's record equals
\* it.
C3_SlotAssignmentFixed ==
    []SlotsOfRecordsAndStep /\ [][SlotsKept]_vars

\* C3's case: a second step reached with the first POI's record written
\* (AI text in slot A), and re-rendered with changed radios.
C3_Witness ==
    /\ page = 2
    /\ OnComparisonStep
    /\ Len(survey_responses) = 1
    /\ ~survey_responses[1].is_manual_first
    /\ widgets # DefaultSheet

\* C7: a call of generate_all_poi_content that finds the cache file of its
\* user_id makes no endpoint call and returns the map stored in the file.
C7_SecondCallServedFromCache ==
    (last_gen.called /\ last_gen.cache_existed) =>
        /\ last_gen.calls = 0
        /\ last_gen.returned = last_gen.cached

IsBlank(text) == \A i \in 1..Len(text) : text[i] \in Whitespace

\* The rules a submission breaks, by the message of each.
BrokenRules(form) ==
    (IF IsBlank(form.livein_city) THEN {"Current City is required"} ELSE {})
    \cup (IF Len(form.hobbies) < 3
          THEN {"Please select at least 3 hobbies"} ELSE {})
    \cup (IF Len(form.preferred_travel_style) < 3
          THEN {"Please select at least 3 Preferred Travel Styles"} ELSE {})
    \cup (IF Len(form.interests) < 3
          THEN {"Please select at least 3 Travel Interests"} ELSE {})

IntakeStep ==
    last_submit'.made =>
        /\ last_submit'.returned => BrokenRules(last_submit') = {}
        /\ BrokenRules(last_submit') # {} =>
               /\ ~last_submit'.returned
               /\ user_data' = user_data
               /\ page = 0 /\ page' = 0
               /\ ~last_gen'.called
               /\ endpoint_calls' = endpoint_calls
               /\ ai_content' = ai_content
               /\ {error'[k] : k \in 1..Len(error')} = BrokenRules(last_submit')

\* C10: an intake submission is accepted only if the city is non-blank and
\* the three multiselects hold at least 3 selections each; a submission that
\* breaks a rule returns False, leaves user_data and the page as they are,
\* starts no generation, and its error lists every broken rule.
C10_IntakeValidation == [][IntakeStep]_vars

\* C10's case: a rejected submission that broke several rules.
C10_Witness ==
    /\ last_submit.made
    /\ ~last_submit.returned
    /\ page = 0
    /\ Len(error) >= 3
    /\ user_data = EmptyMap

GenReturned == gen_pc = "returned"

\* C4: whatever the endpoint does (an answer of any length, or a fault), the
\* returned description is no longer than the POI's original description.
C4_DescriptionWithinOriginal ==
    GenReturned => Len(gen_result.description) <= Len(gen_poi.description)

\* C4 as amended: for every answer of the endpoint the returned description
\* is no longer than the original; on a fault the result is the placeholder
\* description, whatever the original's length.
C4_AnsweredDescriptionWithinOriginal ==
    GenReturned =>
        IF gen_outcome.fault
        THEN gen_result.description = ErrorDescription
        ELSE Len(gen_result.description) <= Len(gen_poi.description)

\* C4's case: an answer longer than the original, cut to a non-empty text.
C4_Witness ==
    /\ GenReturned
    /\ ~gen_outcome.fault
    /\ Len(gen_outcome.description) > Len(gen_poi.description)
    /\ Len(gen_result.description) >= 1
    /\ Len(gen_result.description) < Len(gen_poi.description)

\* C5: a truncated description is a prefix of the generated text within the
\* limit that ends at a word boundary: its last character is not followed,
\* inside the same word, by another character of the generated text.
C5_TruncationAtWordBoundary ==
    (GenReturned /\ ~gen_outcome.fault
     /\ Len(gen_outcome.description) > Len(gen_poi.description)) =>
        LET generated == gen_outcome.description
            k == Len(gen_result.description)
        IN  /\ k <= Len(gen_poi.description)
            /\ gen_result.description = SubSeq(generated, 1, k)
            /\ \/ k = 0
               \/ generated[k] \in Whitespace
               \/ generated[k + 1] \in Whitespace

\* C6: for every answer of the endpoint the returned title is no longer than
\* the POI's original title.
C6_TitleWithinOriginal ==
    (GenReturned /\ ~gen_outcome.fault) =>
        Len(gen_result.title) <= Len(gen_poi.title)

Processed == df_pc = "processed"

\* The text the respondent chose with a cell of a preference column.
Chosen(row, column) ==
    CASE row.preference[column] = "Version A" ->
             description_a(row.is_manual_first)
      [] row.preference[column] = "Version B" ->
             description_b(row.is_manual_first)
      [] OTHER -> "neither"

\* C8: each preference score is +1 exactly when the respondent chose the
\* human-authored text, -1 exactly when the AI-generated text, and 0 for
\* 'Both equally', for both values of is_manual_first.
C8_ScoreFollowsChosenText ==
    Processed =>
        \A r \in DOMAIN df : \A c \in PreferenceColumns :
            /\ df[r].score[c] = Num(1) <=> Chosen(df[r], c) = "manual"
            /\ df[r].score[c] = Num(-1) <=> Chosen(df[r], c) = "ai"
            /\ df[r].preference[c] = "Both equally" => df[r].score[c] = Num(0)

\* C9: the score of a cell is 1 for 'Version A', -1 for 'Version B', 0 for
\* 'Both equally' and missing for every other cell, the empty cell and
\* 'No Selection' included; no cell of a preference column makes the step
\* raise.
C9_ScoreMapping ==
    /\ df_pc # "raised"
    /\ Processed =>
           \A r \in DOMAIN df : \A c \in PreferenceColumns :
               LET cell == df[r].preference[c]
                   score == df[r].score[c]
               IN  /\ cell = "Version A" => score = Num(1)
                   /\ cell = "Version B" => score = Num(-1)
                   /\ cell = "Both equally" => score = Num(0)
                   /\ cell \notin {"Version A", "Version B", "Both equally"}
                          => score.nan

\* C9's case: a processed row with a 'No Selection' cell and an empty cell.
C9_Witness ==
    /\ Processed
    /\ \E r \in DOMAIN df :
           /\ df[r].preference["engaging_preference"] = "No Selection"
           /\ df[r].score["engaging_preference"].nan
           /\ df[r].preference["title_preference"] = MissingCell
           /\ df[r].score["title_preference"].nan

\* The questions a sheet leaves at 'No Selection'.
Unanswered(answers) == {f \in FieldSet : answers[f] = "No Selection"}

RecordAnswers(record) ==
    {record.manual_significance, record.manual_trust, record.manual_clarity,
     record.ai_significance, record.ai_trust, record.ai_clarity,
     record.engaging_preference, record.relevant_preference,
     record.eager_preference, record.title_preference,
     record.description_preference, record.already_visited}

NoRecordHoldsNoSelection ==
    /\ \A k \in 1..Len(survey_responses) :
           "No Selection" \notin RecordAnswers(survey_responses[k])
    /\ \A k \in 1..Len(last_flush.responses) :
           "No Selection" \notin RecordAnswers(last_flush.responses[k])

ClickStep ==
    last_nav'.pressed =>
        /\ last_nav'.poi_index = page - 1
        /\ (page' # page \/ survey_responses' # survey_responses
            \/ last_flush'.called)
               => Unanswered(last_nav'.answers) = {}
        /\ Unanswered(last_nav'.answers) # {} =>
               /\ page' = page
               /\ survey_responses' = survey_responses
               /\ ~last_flush'.called
               /\ csv_writes' = csv_writes
               /\ {error'[k] : k \in 1..Len(error')}
                      = {question_text[f] : f \in Unanswered(last_nav'.answers)}
               /\ Len(error') = Cardinality(Unanswered(last_nav'.answers))

\* C11: a 'Next' or 'Finish' click changes the page, the records or the
\* files only if none of the twelve answers of its step is 'No Selection';
\* a click with an unanswered question leaves the page and survey_responses
\* as they are, flushes nothing, and its error lists exactly the unanswered
\* questions; no recorded or flushed record holds 'No Selection'.
C11_NavigationGatedByAnswers ==
    []NoRecordHoldsNoSelection /\ [][ClickStep]_vars

\* C11's case: a blocked click on the second step with the familiarity
\* question alone unanswered, the first step's record written.
C11_Witness ==
    /\ last_nav.pressed
    /\ last_nav.poi_index = 1
    /\ Unanswered(last_nav.answers) = {"isvisited"}
    /\ error = <<"Your familiarity with this place">>
    /\ page = 2
    /\ Len(survey_responses) = 1

SentinelPair == [title |-> ErrorTitle, description |-> ErrorDescription]

Recorded(responses) == {responses[k].poi_id : k \in 1..Len(responses)}

EnterClosingStep ==
    /\ (page' = -1 /\ page # -1) =>
           /\ last_nav'.pressed
           /\ page = Len(CatalogPOIs)
           /\ last_nav'.poi_index = Len(CatalogPOIs) - 1
           /\ last_flush'.called
           /\ last_flush'.ok
           /\ last_flush'.responses = survey_responses'
           /\ Recorded(last_flush'.responses)
                  = {CatalogPOIs[i].id : i \in 1..Len(CatalogPOIs)}
           /\ csv_writes' = csv_writes + 1
    /\ (last_nav'.pressed /\ last_nav'.poi_index < Len(CatalogPOIs) - 1) =>
           /\ ~last_flush'.called
           /\ csv_writes' = csv_writes
           /\ page' # -1

\* C13: the page becomes -1 only by an accepted 'Finish' on the last step,
\* whose flush of the records of all N POIs has succeeded in the same step;
\* in every state with page = -1 the run's CSV file is written; a click on
\* a step before the last flushes nothing.
C13_ClosingOnlyAfterFlush ==
    [](page = -1 => csv_writes >= restarts + 1) /\ [][EnterClosingStep]_vars

\* C13's case: the closing page reached from the second of two steps, both
\* records flushed to one file.
C13_Witness ==
    /\ page = -1
    /\ last_nav.pressed
    /\ last_nav.poi_index = 1
    /\ last_flush.called /\ last_flush.ok
    /\ Len(last_flush.responses) = 2
    /\ csv_writes = 1

FailedFlush == last_flush.called /\ ~last_flush.ok

FailedFlushStep ==
    (last_flush'.called /\ ~last_flush'.ok) =>
        /\ page' = page
        /\ Len(survey_responses') >= Len(survey_responses)
        /\ \A k \in 1..Len(survey_responses) :
               survey_responses'[k] = survey_responses[k]
        /\ last_flush'.responses = survey_responses'
        /\ widgets' = widgets
        /\ csv_writes' = csv_writes

RetryPossible ==
    /\ OnComparisonStep
    /\ ~has_next_step(page - 1, load_poi_data)
    /\ ENABLED (\E coin \in Draws(order_poi, page) : AcceptedFinish(coin, TRUE))

\* C14: a flush whose CSV write fails keeps every record that was in memory
\* (the list passed to the flush is still survey_responses), leaves the
\* session on the last comparison step with its answers, and 'Finish' can be
\* pressed again.
C14_FailedFlushKeepsRecords ==
    [](FailedFlush => RetryPossible) /\ [][FailedFlushStep]_vars

\* C14's case: the write failed on the second of two steps, the first
\* step's record and the last one still in memory.
C14_Witness ==
    /\ FailedFlush
    /\ page = 2
    /\ Len(survey_responses) = 2
    /\ survey_responses[1].poi_id = 1
    /\ error = <<"OSError">>
    /\ csv_writes = 0

\* C15: a run saves at most one FinalFeedback file: after the first saved
\* final submission no further one is saved.
C15_AtMostOneFinalFeedback == final_submissions <= 1

RestartStep ==
    restarts' # restarts =>
        /\ page' \in {-2, 0}
        /\ user_data' = EmptyMap
        /\ survey_responses' = <<>>
        /\ ai_content' = EmptyMap
        /\ order_poi' = EmptyMap
        /\ widgets' = EmptyMap
        /\ user_id' # user_id

\* C16: 'Start New Survey' puts the session on its initial page with
\* user_data, survey_responses, the generated-content map, the slot
\* assignments and the step answers empty, and with a user identifier that
\* differs from the previous run's.
C16_RestartReinitializesSession == [][RestartStep]_vars

\* The catalog file is missing or malformed.
CatalogUnavailable ==
    \/ ~pois_json.exists
    \/ ~pois_json.parses
    \/ \E k \in 1..Len(pois_json.categories) : ~pois_json.categories[k].has_pois

\* C17: on a catalog file that is missing or malformed the loader returns
\* None after showing its error, raising nothing, and the caller generates
\* nothing and leaves the page.
C17_CatalogUnavailableIsAValue ==
    (last_submit.made /\ last_submit.returned /\ CatalogUnavailable) =>
        /\ error # <<>>
        /\ error \notin {JSONDecodeError, KeyError}
        /\ ~last_gen.called
        /\ endpoint_calls = 0
        /\ ai_content = EmptyMap
        /\ page = 0

\* C18: a processing step leaves the table passed to it as it was, and
\* applied to its own output it raises nothing and returns that output
\* unchanged.
C18_ProcessingIdempotentAndPure ==
    /\ df_pc = "processed" => survey_df = df_before
    /\ df_pc # "raised_again"
    /\ df_pc = "reprocessed" => survey_df = df_before

RECURSIVE RowCount(_)
RowCount(files) ==
    IF files = <<>> THEN 0 ELSE Len(Head(files).rows) + RowCount(Tail(files))

\* C19: the pipeline stops with an exception only when it has files and
\* every one of them lacks the timestamp or the user_id column; otherwise
\* processing ends with a row for every row of every file.
C19_DataErrorsNotFatal ==
    /\ (df_pc = "raised" /\ csv_files # <<>>) =>
           \A i \in DOMAIN csv_files :
               \/ "timestamp" \notin csv_files[i].columns
               \/ "user_id" \notin csv_files[i].columns
    /\ df_pc = "processed" => Len(df) = RowCount(csv_files)

\* The mean the rows of user id have in a score column, computed from the
\* processed table.
ExpectedMean(id, col) ==
    LET present == {r \in DOMAIN df : df[r].user_id = id /\ ~df[r].score[col].nan}
    IN  IF present = {} THEN NaNMean
        ELSE [nan |-> FALSE, sum |-> ScoreSum(survey_df, present, col),
              count |-> Cardinality(present)]

\* C20: the aggregate has one row per user identifier of the input, every
\* input row (one without identifier too) is in the group of exactly one
\* output row, and each mean is the mean of the group's non-missing scores.
C20_OneSummaryRowPerUser ==
    df_pc = "aggregated" =>
        /\ Len(user_aggs)
               = Cardinality({df[r].user_id : r \in DOMAIN df} \ {MissingId})
        /\ \A r \in DOMAIN df :
               Cardinality({g \in DOMAIN user_aggs :
                               user_aggs[g].user_id = df[r].user_id}) = 1
        /\ \A g \in DOMAIN user_aggs : \A c \in PreferenceColumns :
               user_aggs[g].mean[c] = ExpectedMean(user_aggs[g].user_id, c)

\* While no consent is given the session is on the consent page with no
\* profile, no generated content, no endpoint call, no record and no
\* comparison step on screen.
NothingBeforeConsent ==
    ~consent_given =>
        /\ page = -2
        /\ user_data = EmptyMap
        /\ ai_content = EmptyMap
        /\ ~temp_file.exists
        /\ endpoint_calls = 0
        /\ survey_responses = <<>>
        /\ order_poi = EmptyMap
        /\ widgets = EmptyMap
        /\ ~last_submit.made /\ ~last_gen.called /\ ~last_nav.pressed

ConsentStep ==
    /\ consent_given => consent_given'
    /\ consent_given' # consent_given => (page = -2 /\ AgreeAndContinue)

\* C21: a session starts on the consent page (page = -2) with consent_given
\* false; consent_given becomes true only by 'Agree and Continue' on that
\* page and no later step sets it back; while it is false no profile is
\* stored, nothing is generated and no comparison step runs.
C21_ConsentGatesSession ==
    /\ page = -2 /\ ~consent_given
    /\ []NothingBeforeConsent
    /\ [][ConsentStep]_vars

\* C21's case: consent given once, a run finished and restarted, and the
\* second run's profile stored with the flag still set.
C21_Witness ==
    /\ consent_given
    /\ restarts = 1
    /\ user_data # EmptyMap
    /\ OnComparisonStep

\* The ids of the catalog's POIs, in catalog order.
CatalogIds == [i \in 1..Len(CatalogPOIs) |-> CatalogPOIs[i].id]

\* A batch calls the endpoint once per POI in catalog order, reports
\* 1/N, ..., N/N and returns an entry per POI; a run on a comparison step
\* or on the closing page has had exactly one batch, a run before its
\* accepted intake none.
OneBatchPerRun ==
    /\ last_gen.called =>
           /\ last_gen.requested = CatalogIds
           /\ last_gen.calls = Len(CatalogIds)
           /\ Len(last_gen.progress) = Len(CatalogIds)
           /\ \A i \in 1..Len(CatalogIds) :
                  last_gen.progress[i] = [done |-> i, total |-> Len(CatalogIds)]
           /\ DOMAIN last_gen.returned
                  = {CatalogIds[i] : i \in 1..Len(CatalogIds)}
    /\ (page >= 1 \/ page = -1) =>
           endpoint_calls = (restarts + 1) * Len(CatalogIds)
    /\ page \in {-2, 0} => endpoint_calls = restarts * Len(CatalogIds)

BatchStep ==
    /\ last_gen'.called =>
           /\ page = 0 /\ page' = 1
           /\ last_submit'.made /\ last_submit'.returned
           /\ endpoint_calls' = endpoint_calls + Len(CatalogIds)
    /\ endpoint_calls' # endpoint_calls => last_gen'.called
    /\ page # 0 => endpoint_calls' = endpoint_calls

\* C22: the batch runs once per run of the survey, in the step of the
\* accepted intake submission that ends on the first comparison step: it
\* calls the endpoint once per catalog POI in catalog order, reports the
\* progress 1/N, 2/N, ..., N/N and returns a map whose keys are the
\* catalog's POI ids; no render and no navigation of a comparison step calls
\* the endpoint.
C22_BatchOncePerRunInOrder ==
    []OneBatchPerRun /\ [][BatchStep]_vars

\* C22's case: the batch of the second run on a catalog of two POIs, four
\* endpoint calls in all.
C22_Witness ==
    /\ last_gen.called
    /\ last_gen.requested = <<1, 2>>
    /\ last_gen.progress = <<[done |-> 1, total |-> 2], [done |-> 2, total |-> 2]>>
    /\ restarts = 1
    /\ endpoint_calls = 4
    /\ page = 1

\* The profile a record embeds.
ProfileOf(record) ==
    [user_id |-> record.user_id,
     city |-> record.city,
     hobbies |-> record.hobbies,
     interests |-> record.interests,
     preferred_travel_style |-> record.preferred_travel_style]

\* Every record in memory, and every record passed to the flush, embeds the
\* stored profile and the session's user_id.
RecordsEmbedProfile ==
    /\ \A k \in 1..Len(survey_responses) :
           /\ ProfileOf(survey_responses[k]) = user_data
           /\ survey_responses[k].user_id = user_id
    /\ \A k \in 1..Len(last_flush.responses) :
           /\ ProfileOf(last_flush.responses[k]) = user_data
           /\ last_flush.responses[k].user_id = user_id

\* A step taken on a comparison step or on the closing questionnaire, the
\* restart excluded.
ComparisonPhaseStep ==
    /\ page >= 1 \/ page = -1
    /\ restarts' = restarts

ProfileAndContentKept ==
    ComparisonPhaseStep =>
        /\ user_data' = user_data
        /\ ai_content' = ai_content
        /\ user_id' = user_id
        /\ temp_file' = temp_file

\* C23: from the first comparison step on, no render, blocked or accepted
\* click, flush or final submission changes user_data or ai_content, and
\* every record of the run embeds the stored profile and user_id.
C23_ProfileAndContentFrozen ==
    []RecordsEmbedProfile /\ [][ProfileAndContentKept]_vars

\* C23's case: both steps recorded and flushed and the final questionnaire
\* saved, the profile and the content still stored.
C23_Witness ==
    /\ page = -1
    /\ final_submissions = 1
    /\ Len(survey_responses) = 2
    /\ ProfileOf(survey_responses[1]) = user_data
    /\ user_data.city = <<"U", "l", "m">>
    /\ DOMAIN ai_content = {1, 2}

RECURSIVE CategoryOffset(_, _)
\* The number of POIs in the categories before the k-th.
CategoryOffset(categories, k) ==
    IF k <= 1 THEN 0
    ELSE CategoryOffset(categories, k - 1) + Len(categories[k - 1].pois)

\* The list the loader returns holds the j-th POI of the k-th category at
\* the position after all POIs of the earlier categories and the first j - 1
\* of its own, and holds nothing else; it is empty for a document without
\* the 'categories' key.
FlatInDocumentOrder ==
    (pois_json.exists /\ pois_json.parses
     /\ \A k \in 1..Len(pois_json.categories) :
            pois_json.categories[k].has_pois) =>
        LET categories == pois_json.categories
            flat == load_poi_data.pois
        IN  /\ load_poi_data.ok
            /\ Len(flat) = CategoryOffset(categories, Len(categories) + 1)
            /\ \A k \in 1..Len(categories) :
                   \A j \in 1..Len(categories[k].pois) :
                       flat[CategoryOffset(categories, k) + j]
                           = categories[k].pois[j]
            /\ ~pois_json.has_categories => flat = <<>>

ScalePosition(col, cell) ==
    IF \E k \in 1..5 : ScaleOf(col)[k] = cell
    THEN CHOOSE k \in 1..5 : ScaleOf(col)[k] = cell
    ELSE 0

RECURSIVE PositionSum(_, _)
PositionSum(R, col) ==
    IF R = {} THEN 0
    ELSE LET r == CHOOSE x \in R : TRUE
         IN  ScalePosition(col, df[r].rating[col]) + PositionSum(R \ {r}, col)

\* The mean of the positions of user id's ratings in a rating column.
ExpectedRatingMean(id, col) ==
    LET present == {r \in DOMAIN df : /\ df[r].user_id = id
                                      /\ ScalePosition(col, df[r].rating[col]) > 0}
    IN  IF present = {} THEN NaNMean
        ELSE [nan |-> FALSE, sum |-> PositionSum(present, col),
              count |-> Cardinality(present)]

\* C25: every row of the aggregate holds, for each of the six rating
\* columns (significance, trust and clarity of both variants), the mean of
\* its user's ratings mapped to 1..5, the lowest option of each scale to 1
\* and the highest to 5.
C25_AllRatingScalesAggregated ==
    df_pc = "aggregated" =>
        \A g \in DOMAIN user_aggs : \A c \in RatingColumns :
            /\ c \in DOMAIN user_aggs[g].rating_mean
            /\ user_aggs[g].rating_mean[c]
                   = ExpectedRatingMean(user_aggs[g].user_id, c)

\* Both flushes have written and closed their file.
BothFlushed == \A s \in Sessions : flushes # EmptyMap /\ flushes[s].pc = "done"

\* The rows session s passed to its flush.
RowsOf(s) == ExportRows(s, flushes[s].rows)

\* Of two flushes, the one that wrote last, and the other.
LaterWriter == CHOOSE s \in Sessions : \A t \in Sessions : flushes[t].wrote <= flushes[s].wrote
EarlierWriter == CHOOSE s \in Sessions : s # LaterWriter

\* Flushes named by different seconds have a file each, holding their rows.
DifferentSecondsDifferentFiles ==
    (BothFlushed /\ flushes[1].timestamp # flushes[2].timestamp) =>
        \A s \in Sessions : survey_results[flushes[s].timestamp] = RowsOf(s)

AssessmentKeys(label) ==
    IF label = "A"
    THEN <<"manual_significance", "manual_trust", "manual_clarity">>
    ELSE <<"ai_significance", "ai_trust", "ai_clarity">>

\* The box that showed the given text ("manual" or "ai") of a record's step.
BoxOf(text, is_manual_first) ==
    IF description_a(is_manual_first) = text THEN "A" ELSE "B"

\* The three ratings the respondent gave to a text: the values of the
\* radios under the box that showed it.
RatingsGivenTo(text, record) ==
    [i \in 1..3 |->
        record[AssessmentKeys(BoxOf(text, record.is_manual_first))[i]]]

\* C27: in every record the manual_ fields hold the ratings given to the
\* human-authored text and the ai_ fields those given to the AI-generated
\* text, whichever of the two was shown as Version A.
C27_RatingFieldsFollowSource ==
    \A k \in 1..Len(survey_responses) :
        LET record == survey_responses[k]
        IN  /\ << record.manual_significance, record.manual_trust,
                  record.manual_clarity >> = RatingsGivenTo("manual", record)
            /\ << record.ai_significance, record.ai_trust,
                  record.ai_clarity >> = RatingsGivenTo("ai", record)

\* C28: on a comparison page the step index page - 1 is an index of the
\* list the loader returns for the render, 0 <= page - 1 < N; a session on
\* a catalog of no POIs is on no comparison page.
C28_StepIndexWithinCatalog ==
    page >= 1 =>
        /\ load_poi_data.ok
        /\ 0 <= page - 1
        /\ page - 1 < Len(CatalogPOIs)

\* The ratings a final sheet leaves at 'No Selection'.
UnselectedRatings(sheet) ==
    {f \in {"overall_rating", "adaptation_rating", "ai_comfort_rating"} :
        ~sheet[f].selected}

FinalSubmissionStep ==
    last_final'.made =>
        /\ page = -1 /\ page' = -1
        /\ UnselectedRatings(last_final'.sheet) # {} =>
               /\ last_final'.rows = <<>>
               /\ final_submissions' = final_submissions
               /\ error' # <<>>
        /\ (UnselectedRatings(last_final'.sheet) = {} /\ error' = <<>>) =>
               /\ final_submissions' = final_submissions + 1
               /\ Len(last_final'.rows) = 1
               /\ \A f \in {"overall_rating", "adaptation_rating",
                             "ai_comfort_rating"} :
                      /\ last_final'.rows[1][f] \in 1..5
                      /\ last_final'.rows[1][f] = last_final'.sheet[f].value
        /\ error' # <<>> => final_submissions' = final_submissions

\* C29: a final submission with a rating left at 'No Selection' writes no
\* file and ends with an error, the session still on the closing
\* questionnaire; one with all three ratings chosen, when its write
\* succeeds, writes one file of one row whose three ratings are the chosen
\* integers of 1..5.
C29_FinalSubmissionValidated == [][FinalSubmissionStep]_vars

\* C29's case: after a saved final submission, a second one with the
\* overall rating unselected has raised and written nothing.
C29_Witness ==
    /\ last_final.made
    /\ UnselectedRatings(last_final.sheet) = {"overall_rating"}
    /\ last_final.rows = <<>>
    /\ error = <<"ValidationError">>
    /\ final_submissions = 1
    /\ page = -1

\* The k-th record is the k-th POI's: no step is skipped or taken twice.
RecordsInCatalogOrder ==
    /\ \A k \in 1..Len(survey_responses) :
           /\ k <= Len(CatalogPOIs)
           /\ survey_responses[k].poi_id = CatalogPOIs[k].id
    /\ OnComparisonStep => Len(survey_responses) = page - 1
    /\ page = -1 => Len(survey_responses) = Len(CatalogPOIs)

ForwardStep ==
    (last_nav'.pressed /\ page' # page) =>
        /\ Unanswered(last_nav'.answers) = {}
        /\ Len(survey_responses') = Len(survey_responses) + 1
        /\ IF page < Len(CatalogPOIs)
           THEN page' = page + 1
           ELSE page' = -1

\* C30: an accepted 'Next' moves from step i to step i + 1, no step is
\* skipped or taken twice, and when no flush fails a session on a
\* comparison step whose respondent goes on answering and clicking reaches
\* the closing questionnaire, after N accepted clicks in all.
C30_ForwardProgressCompletes ==
    /\ []RecordsInCatalogOrder
    /\ [][ForwardStep]_vars
    /\ OnComparisonStep ~> (page = -1)

\* C30's case: the closing questionnaire reached after two accepted clicks
\* on a catalog of two POIs, in the second run of the session.
C30_Witness ==
    /\ page = -1
    /\ Len(CatalogPOIs) = 2
    /\ Len(survey_responses) = 2
    /\ survey_responses[1].poi_id = CatalogPOIs[1].id
    /\ survey_responses[2].poi_id = CatalogPOIs[2].id
    /\ last_nav.pressed /\ last_nav.poi_index = 1
    /\ restarts = 1

====
